---- MODULE Spec2Model ----
(***************************************************************************)
(* A model of the PLR (pupillary light reflex) batch pipeline:             *)
(*   src/plr.py           load_plr_data, calculate_pupil_size,             *)
(*                        calculate_eye_openness, detect_blinks,           *)
(*                        calculate_signal_quality, calculate_biomarkers   *)
(*   src/plr_pipeline.py  the __main__ loop over the recordings            *)
(*                                                                         *)
(* Floating point numbers are modelled as exact rationals <<n, d>> with    *)
(* d > 0, extended by the three IEEE special values NaN = <<0, 0>>,        *)
(* +inf = <<1, 0>> and -inf = <<-1, 0>>.  Rounding is not modelled.        *)
(***************************************************************************)
EXTENDS Integers, Sequences, FiniteSets, TLC

(***************************************************************************)
(* Extended rational arithmetic (numpy float64 semantics without rounding) *)
(***************************************************************************)
NaN == <<0, 0>>
PInf == <<1, 0>>
NInf == <<-1, 0>>

IsNaN(a) == a[2] = 0 /\ a[1] = 0
IsInf(a) == a[2] = 0 /\ a[1] # 0
IsFinite(a) == a[2] # 0

AbsInt(n) == IF n < 0 THEN -n ELSE n
SignInt(n) == IF n < 0 THEN -1 ELSE IF n > 0 THEN 1 ELSE 0

RECURSIVE Gcd(_, _)
Gcd(a, b) == IF b = 0 THEN a ELSE Gcd(b, a % b)

\* The canonical form of the fraction n/d, d # 0.
Norm(n, d) ==
    LET g == Gcd(AbsInt(n), AbsInt(d))
        s == IF d < 0 THEN -1 ELSE 1
    IN  <<(s * n) \div g, (s * d) \div g>>

Num(n) == <<n, 1>>
Zero == <<0, 1>>

Neg(a) == <<-a[1], a[2]>>

Add(a, b) ==
    IF IsNaN(a) \/ IsNaN(b) THEN NaN
    ELSE IF IsInf(a) THEN (IF IsInf(b) /\ b[1] # a[1] THEN NaN ELSE a)
    ELSE IF IsInf(b) THEN b
    ELSE Norm(a[1] * b[2] + b[1] * a[2], a[2] * b[2])

Sub(a, b) == Add(a, Neg(b))

Mul(a, b) ==
    IF IsNaN(a) \/ IsNaN(b) THEN NaN
    ELSE IF IsInf(a) \/ IsInf(b)
         THEN (IF a[1] = 0 \/ b[1] = 0 THEN NaN
               ELSE <<SignInt(a[1]) * SignInt(b[1]), 0>>)
    ELSE Norm(a[1] * b[1], a[2] * b[2])

\* 1/a: 1/0 is +inf, 1/inf is 0 (signed zeros are not modelled).
Inv(a) ==
    IF IsNaN(a) THEN NaN
    ELSE IF IsInf(a) THEN Zero
    ELSE IF a[1] = 0 THEN PInf
    ELSE Norm(a[2], a[1])

\* a / b with 0/0 = inf/inf = NaN and x/0 = +-inf, as numpy divides floats.
Div(a, b) == Mul(a, Inv(b))

\* a < b; every comparison with NaN is false.
Lt(a, b) ==
    IF IsNaN(a) \/ IsNaN(b) THEN FALSE
    ELSE IF IsInf(a) THEN a[1] < 0 /\ b # a
    ELSE IF IsInf(b) THEN b[1] > 0
    ELSE a[1] * b[2] < b[1] * a[2]

Gt(a, b) == Lt(b, a)

\* a == b; NaN is not equal to itself.
Eq(a, b) == ~IsNaN(a) /\ ~IsNaN(b) /\ a = b

AbsNum(a) == <<AbsInt(a[1]), a[2]>>

\* np.sqrt on the squares of rationals (the inputs are chosen so that every
\* squared distance is a perfect square); NaN stays NaN.
Sqrt(a) ==
    IF IsNaN(a) THEN NaN
    ELSE <<CHOOSE k \in 0..a[1] : k * k = a[1], CHOOSE k \in 1..a[2] : k * k = a[2]>>

Range(s) == {s[i] : i \in DOMAIN s}

\* The sum of the entries of a sequence of numbers.
RECURSIVE SumSeq(_)
SumSeq(s) == IF s = <<>> THEN Zero ELSE Add(Head(s), SumSeq(Tail(s)))

\* The non-missing entries of a sequence, in order.
NotNaN(s) == SelectSeq(s, LAMBDA v : ~IsNaN(v))

\* Series.max() / Series.min(): missing values are skipped; NaN when none is left.
MaxOf(s) ==
    LET v == NotNaN(s)
    IN  IF v = <<>> THEN NaN
        ELSE CHOOSE m \in Range(v) : \A o \in Range(v) : ~Lt(m, o)

MinOf(s) ==
    LET v == NotNaN(s)
    IN  IF v = <<>> THEN NaN
        ELSE CHOOSE m \in Range(v) : \A o \in Range(v) : ~Lt(o, m)

\* Series.mean(): missing values are skipped; NaN when none is left.
MeanOf(s) ==
    LET v == NotNaN(s)
    IN  IF v = <<>> THEN NaN ELSE Div(SumSeq(v), Num(Len(v)))

\* (mask).idxmax() on a boolean series: the position of the first True, and the
\* first position when no entry is True.
IdxMax(mask) ==
    IF \E i \in DOMAIN mask : mask[i]
    THEN CHOOSE i \in DOMAIN mask : mask[i] /\ \A j \in 1..(i - 1) : ~mask[j]
    ELSE 1

(***************************************************************************)
(* scipy.signal.savgol_filter(x, window_length, polyorder, deriv=1) with   *)
(* the default mode="interp", for polyorder 1 and 2 and an odd window.     *)
(***************************************************************************)
\* Sum over k = -h..h of k^e * x[c + k].
RECURSIVE SgMoment(_, _, _, _, _)
SgMoment(x, c, h, e, k) ==
    IF k > h THEN Zero
    ELSE Add(Mul(Num(IF e = 0 THEN 1 ELSE IF e = 1 THEN k ELSE k * k), x[c + k]),
             SgMoment(x, c, h, e, k + 1))

\* Sum over k = -h..h of k^e (integers).
RECURSIVE SgPower(_, _, _)
SgPower(h, e, k) ==
    IF k > h THEN 0
    ELSE (IF e = 2 THEN k * k ELSE k * k * k * k) + SgPower(h, e, k + 1)

\* The first derivative, at offset t from the centre c, of the least-squares
\* polynomial of order p fitted to x[c-h .. c+h]:  b + 2 c2 t, where
\* b = S(k x)/S(k^2) and c2 = (w S(k^2 x) - S(k^2) S(x)) / (w S(k^4) - S(k^2)^2).
SgFitDeriv(x, c, h, p, t) ==
    LET w  == 2 * h + 1
        s2 == SgPower(h, 2, -h)
        s4 == SgPower(h, 4, -h)
        b  == Div(SgMoment(x, c, h, 1, -h), Num(s2))
        c2 == Div(Sub(Mul(Num(w), SgMoment(x, c, h, 2, -h)),
                      Mul(Num(s2), SgMoment(x, c, h, 0, -h))),
                  Num(w * s4 - s2 * s2))
    IN  IF p = 1 THEN b ELSE Add(b, Mul(Num(2 * t), c2))

\* The filter's output when it returns: the convolution inside, and at the first
\* and last window_length \div 2 samples the derivative of the polynomial fitted
\* to the first (last) window_length samples.
savgol_values(x, window_length, polyorder) ==
    LET n == Len(x)
        h == window_length \div 2
    IN  [i \in 1..n |->
            LET c == IF i < h + 1 THEN h + 1 ELSE IF i > n - h THEN n - h ELSE i
            IN  SgFitDeriv(x, c, h, polyorder, i - c)]

\* The edge fit is np.polyfit on the first and on the last window: with a missing
\* value among them numpy either returns NaN coefficients or raises LinAlgError,
\* depending on the LAPACK build.
SgEdgeHasNaN(x, window_length) ==
    \E i \in 1..Len(x) :
        /\ i <= window_length \/ i > Len(x) - window_length
        /\ IsNaN(x[i])

\* Every outcome of savgol_filter: the ValueError of a window longer than the
\* series (or a polynomial order not below the window), the values, and the
\* LinAlgError a missing value in an edge window may raise.
savgol_filter(x, window_length, polyorder) ==
    IF window_length > Len(x) \/ polyorder >= window_length
    THEN {[error |-> "ValueError", y |-> <<>>]}
    ELSE {[error |-> "none", y |-> savgol_values(x, window_length, polyorder)]}
         \cup (IF SgEdgeHasNaN(x, window_length)
               THEN {[error |-> "LinAlgError", y |-> <<>>]} ELSE {})

(***************************************************************************)
(* calculate_biomarkers (src/plr.py).  ps is the smoothed pupil size in    *)
(* the post-stimulus window, idx its index (time from flash, ms; strictly  *)
(* increasing).  Positions 1..Len(ps) stand for the index labels.          *)
(***************************************************************************)
\* ps.index.to_series().diff(): missing at the first sample.
IndexDiff(idx) ==
    [i \in 1..Len(idx) |-> IF i = 1 THEN NaN ELSE Num(idx[i] - idx[i - 1])]

\* ctn_speed_mms = savgol_filter(ps, ...) / ps.index.to_series().diff() * 1000
ctn_speed_mms(sg, idx) ==
    [i \in 1..Len(idx) |-> Mul(Div(sg[i], IndexDiff(idx)[i]), Num(1000))]

\* ctn_latency = (ctn_speed_mms < ctn_start_velocity_th_mms).idxmax()
ctn_latency(speed, th) ==
    IdxMax([i \in 1..Len(speed) |-> Lt(speed[i], th)])

\* ctn_max = (ps == ps.min()).idxmax()
ctn_max(ps) ==
    IdxMax([i \in 1..Len(ps) |-> Eq(ps[i], MinOf(ps))])

\* total_ctn with the slice ps[:ctn_latency] taken as a positional slice, which
\* stops before the sample at ctn_latency.
total_ctn_exclusive(ps, lat) ==
    Sub(MaxOf(SubSeq(ps, 1, lat - 1)), MinOf(ps))

\* total_ctn = ps[:ctn_latency].max() - ps.min(): a label slice of a float
\* index, which includes the sample at ctn_latency.
total_ctn(ps, lat) ==
    Sub(MaxOf(SubSeq(ps, 1, lat)), MinOf(ps))

\* ctn_max_velocity = -ctn_speed_mms[ctn_latency].min(): the velocity at the
\* latency sample (.min() of a scalar is the scalar).
ctn_max_velocity(speed, lat) ==
    Neg(speed[lat])

\* The record calculate_biomarkers returns for a given filter output.
BiomarkerRecord(ps, idx, th, sg) ==
    LET speed == ctn_speed_mms(sg, idx)
        lat   == ctn_latency(speed, th)
        mx    == ctn_max(ps)
        total == total_ctn(ps, lat)
    IN  [total_ctn_mm         |-> total,
         ctn_latency_ms       |-> idx[lat],
         ctn_velocity_mms     |-> Div(total, Num(idx[mx] - idx[lat])),
         ctn_max_velocity_mms |-> ctn_max_velocity(speed, lat),
         ctn_max_time_ms      |-> idx[mx]]

\* Every outcome of calculate_biomarkers: a record, or the filter's exception.
calculate_biomarkers(ps, idx, th, sg_window, sg_poly_order) ==
    {IF sg.error # "none" THEN [error |-> sg.error]
                          ELSE BiomarkerRecord(ps, idx, th, sg.y) :
        sg \in savgol_filter(ps, sg_window, sg_poly_order)}

\* Whether an outcome is an exception, not a returned value.
IsRaised(r) == "error" \in DOMAIN r

(***************************************************************************)
(* The landmark series.  A frame holds, per eye, the (x, y) coordinates of *)
(* the landmarks the pipeline reads.                                       *)
(***************************************************************************)
Eyes == <<"left", "right">>
EyeSet == {"left", "right"}

\* calculate_pupil_size's lm_pairs: four pupil diameters, then the iris.
PupilPairs == <<(<<7, 10>>), (<<9, 23>>), (<<22, 24>>), (<<25, 23>>)>>
IrisPair == <<6, 11>>

\* calculate_eye_openness's lm_pairs: five eyelid gaps.
OpennessPairs == <<(<<3, 19>>), (<<4, 14>>), (<<17, 15>>), (<<2, 12>>), (<<26, 21>>)>>

Landmarks ==
    {IrisPair[1], IrisPair[2]}
    \cup UNION {{PupilPairs[k][1], PupilPairs[k][2]} : k \in DOMAIN PupilPairs}
    \cup UNION {{OpennessPairs[k][1], OpennessPairs[k][2]} : k \in DOMAIN OpennessPairs}

\* The landmarks of an eye at a frame whose values are all missing.
MissingEye == [l \in Landmarks |-> <<NaN, NaN>>]

\* sqrt((x2 - x1)^2 + (y2 - y1)^2) for one landmark pair at one frame.
LandmarkDistance(e, pair) ==
    LET dx == Sub(e[pair[2]][1], e[pair[1]][1])
        dy == Sub(e[pair[2]][2], e[pair[1]][2])
    IN  Sqrt(Add(Mul(dx, dx), Mul(dy, dy)))

\* _calculate_landmark_distance: one distance series per pair, over the frames
\* of one eye's landmark columns.
calculate_landmark_distance(eyecol, lm_pairs) ==
    [k \in DOMAIN lm_pairs |->
        [i \in DOMAIN eyecol |-> LandmarkDistance(eyecol[i], lm_pairs[k])]]

(***************************************************************************)
(* load_plr_data (src/plr.py).  landmarks is the landmarks CSV: a sequence *)
(* of rows [timestamp, retcode, left, right]; protocol is the protocol     *)
(* CSV: a sequence of rows [event, time].  Times are in ms.                *)
(***************************************************************************)
\* pt.time[pt.event == name].values: the times of the events called name.
EventTimes(protocol, name) ==
    LET ev == SelectSeq(protocol, LAMBDA r : r.event = name)
    IN  [k \in DOMAIN ev |-> ev[k].time]

\* The exception raised where .values[0] finds no such event.
load_error == "IndexError"

\* One eye's landmark columns as read from the CSV, the frames whose retcode
\* is not OK left as written.
KeepNotOK(landmarks, eye) ==
    [i \in DOMAIN landmarks |-> landmarks[i][eye]]

\* lm.loc[lm["retcode"] != "OK", <all but timestamp, retcode>] = np.nan, for
\* one eye's landmark columns.
InvalidateNotOK(landmarks, eye) ==
    [i \in DOMAIN landmarks |->
        IF landmarks[i].retcode # "OK" THEN MissingEye ELSE landmarks[i][eye]]

\* The frame and the flash duration load_plr_data returns for the given onset
\* and offset.
LoadedFrame(landmarks, onset, offset) ==
    LET frames == DOMAIN landmarks
        col(eye) == InvalidateNotOK(landmarks, eye)
    IN  [error |-> "none",
         lm |-> [timestamp   |-> [i \in frames |-> landmarks[i].timestamp],
                 retcode     |-> [i \in frames |-> landmarks[i].retcode],
                 lmk         |-> [eye \in EyeSet |-> col(eye)],
                 is_flash_on |-> [i \in frames |->
                                     /\ landmarks[i].timestamp >= onset
                                     /\ landmarks[i].timestamp <= offset],
                 index       |-> [i \in frames |-> landmarks[i].timestamp - onset],
                 is_blink    |-> [eye \in EyeSet |-> <<>>],
                 pupil_size_mm        |-> [eye \in EyeSet |-> <<>>],
                 smooth_pupil_size_mm |-> [eye \in EyeSet |-> <<>>]],
         flash_duration |-> offset - onset]

\* load_plr_data checking for the onset only: a missing FlashOff is taken to
\* coincide with the onset.
load_plr_data_onset_only(landmarks, protocol) ==
    LET on  == EventTimes(protocol, "FlashOn")
        off == EventTimes(protocol, "FlashOff")
    IN  IF on = <<>> THEN [error |-> load_error]
        ELSE LoadedFrame(landmarks, on[1], IF off = <<>> THEN on[1] ELSE off[1])

load_plr_data(landmarks, protocol) ==
    LET on  == EventTimes(protocol, "FlashOn")
        off == EventTimes(protocol, "FlashOff")
    IN  IF on = <<>> \/ off = <<>>
        THEN [error |-> load_error]
        ELSE LoadedFrame(landmarks, on[1], off[1])

(***************************************************************************)
(* calculate_pupil_size and calculate_eye_openness (src/plr.py)            *)
(***************************************************************************)
\* DataFrame.mean(axis=1) over a sequence of columns: per frame, the mean of
\* the present values.
RowMean(cols, frames) ==
    [i \in frames |-> MeanOf([k \in DOMAIN cols |-> cols[k][i]])]

\* ret[pupil_size_px] / ret[iris_size_px] * nominal_iris_size_mm
pupil_size_mm_of(px, iris, nominal_iris_size_mm) ==
    Mul(Div(px, iris), nominal_iris_size_mm)

calculate_pupil_size(lm, eye, nominal_iris_size_mm) ==
    LET frames == DOMAIN lm.index
        d    == calculate_landmark_distance(lm.lmk[eye], PupilPairs)
        iris == calculate_landmark_distance(lm.lmk[eye], <<IrisPair>>)[1]
        px   == RowMean(d, frames)
    IN  [pupil_px      |-> d,
         iris_size_px  |-> iris,
         pupil_size_px |-> px,
         pupil_size_mm |-> [i \in frames |->
                              pupil_size_mm_of(px[i], iris[i], nominal_iris_size_mm)]]

calculate_eye_openness(lm, eye) ==
    LET frames == DOMAIN lm.index
        d  == calculate_landmark_distance(lm.lmk[eye], OpennessPairs)
        \* ret / ret.max(): each gap series over its own maximum
        nz == [k \in DOMAIN d |-> [i \in frames |-> Div(d[k][i], MaxOf(d[k]))]]
    IN  [openness_px |-> d,
         mean_eye_openness_nz |-> RowMean(nz, frames)]

(***************************************************************************)
(* detect_blinks (src/plr.py)                                              *)
(***************************************************************************)
\* The positions of a centred window of the given length around frame i of n:
\* pandas ends it (window - 1) \div 2 frames after i.
CentredWindow(i, window, n) ==
    LET last == i + ((window - 1) \div 2)
    IN  {j \in 1..n : j >= last - window + 1 /\ j <= last}

\* .rolling(window, center=True, min_periods=1).median().astype(bool) on a
\* boolean series: the median of the k values of the (clipped) window is not 0
\* exactly when at least half of them are True.
RollingMedianBool(raw, window) ==
    [i \in DOMAIN raw |->
        LET win == CentredWindow(i, window, Len(raw))
        IN  2 * Cardinality({j \in win : raw[j]}) >= Cardinality(win)]

\* (speed > speed_th) | (openness < openness_th), per frame.
RawBlink(speed, openness, openness_th, speed_th) ==
    [i \in DOMAIN openness |->
        Gt(speed[i], speed_th) \/ Lt(openness[i], openness_th)]

\* Every outcome of detect_blinks for one eye's openness series: the filter's
\* exception, or the speed and is_blink columns.
detect_blinks(openness, blink_cfg) ==
    {IF sg.error # "none" THEN [error |-> sg.error]
     ELSE LET speed == [i \in DOMAIN openness |-> AbsNum(sg.y[i])]
          IN  [error |-> "none",
               speed |-> speed,
               is_blink |-> RollingMedianBool(
                                RawBlink(speed, openness,
                                         blink_cfg.openness_th, blink_cfg.speed_th),
                                blink_cfg.blink_interval_window)] :
        sg \in savgol_filter(openness, blink_cfg.sg_window, blink_cfg.sg_poly_order)}

(***************************************************************************)
(* Noise reduction and calculate_signal_quality                            *)
(***************************************************************************)
\* scipy's window weights for the configured win_type at offset k of the
\* window's centre (odd lengths): boxcar is uniform, triang falls off linearly.
WindowWeight(win_type, window, k) ==
    IF win_type = "triang"
    THEN Norm(((window + 1) \div 2) - AbsInt(k), (window + 1) \div 2)
    ELSE Num(1)

\* Sum over the window positions from j of weight * value.
RECURSIVE WeightedSum(_, _, _, _, _, _)
WeightedSum(x, i, win_type, window, j, last) ==
    IF j > last THEN Zero
    ELSE Add(Mul(WindowWeight(win_type, window, j - i), x[j]),
             WeightedSum(x, i, win_type, window, j + 1, last))

RECURSIVE WeightTotal(_, _, _, _)
WeightTotal(i, win_type, window, j) ==
    IF j > i + ((window - 1) \div 2) THEN Zero
    ELSE Add(WindowWeight(win_type, window, j - i),
             WeightTotal(i, win_type, window, j + 1))

\* .rolling(window, center=True, win_type=...).mean(): min_periods is the window
\* length, so a frame whose window leaves the series or holds a missing value
\* is missing; pandas turns infinite values into missing ones before rolling.
RollingMean(x, window, win_type) ==
    [i \in DOMAIN x |->
        LET last  == i + ((window - 1) \div 2)
            first == last - window + 1
        IN  IF first < 1 \/ last > Len(x) THEN NaN
            ELSE IF \E j \in first..last : ~IsFinite(x[j]) THEN NaN
            ELSE Div(WeightedSum(x, i, win_type, window, first, last),
                     WeightTotal(i, win_type, window, first))]

\* lm.loc[t0:t1, column]: the label slice of a sorted index, both ends included.
LocSlice(index, column, t0, t1) ==
    LET keep == SelectSeq([i \in DOMAIN index |-> i],
                          LAMBDA i : index[i] >= t0 /\ index[i] <= t1)
    IN  [k \in DOMAIN keep |-> column[keep[k]]]

\* (s.diff() ** 2).mean(): the radicand of rms_s2s.  The square root itself is
\* not rational and is kept symbolic.
MeanSquaredDiff(s) ==
    MeanOf([i \in DOMAIN s |->
               IF i = 1 THEN NaN
               ELSE LET d == Sub(s[i], s[i - 1]) IN Mul(d, d)])

\* (rms_s2s(left) + rms_s2s(right)) / 2, as the pair of radicands; it is missing
\* exactly when one of the radicands is.
QualityScore(lm, column, t) ==
    [eye \in EyeSet |->
        MeanSquaredDiff(LocSlice(lm.index, lm[column][eye], t[1], t[2]))]

calculate_signal_quality(lm, t) ==
    [raw_signal_quality    |-> QualityScore(lm, "pupil_size_mm", t),
     smooth_signal_quality |-> QualityScore(lm, "smooth_pupil_size_mm", t)]

(***************************************************************************)
(* The stages of the __main__ loop (src/plr_pipeline.py), each as the set  *)
(* of its outcomes for one recording.                                      *)
(***************************************************************************)
\* f with key k set to v (dict assignment).
Put(f, k, v) == [x \in DOMAIN f \cup {k} |-> IF x = k THEN v ELSE f[x]]

\* lm["retcode"].value_counts()["OK"]: a KeyError when no frame is OK.
ok_count(lm) == Cardinality({i \in DOMAIN lm.retcode : lm.retcode[i] = "OK"})

\* dataloss = 1.0 - ok_count / len(lm)
dataloss_of(lm) == Sub(Num(1), Div(Num(ok_count(lm)), Num(Len(lm.retcode))))

\* A blink mask applied to the landmark columns of both eyes.
ApplyBlinkMaskAllEyes(lm, eye, mask) ==
    [lm EXCEPT !.lmk = [e \in EyeSet |->
                           [i \in DOMAIN @[e] |-> IF mask[i] THEN MissingEye ELSE @[e][i]]],
               !.is_blink[eye] = mask]

\* lm.loc[blink[is_blink], <the eye's columns>] = np.nan, then
\* lm[<eye>_is_blink] = blink[is_blink]: the eye's columns are its landmarks.
ApplyBlinkMask(lm, eye, mask) ==
    [lm EXCEPT !.lmk[eye] = [i \in DOMAIN @ |-> IF mask[i] THEN MissingEye ELSE @[i]],
               !.is_blink[eye] = mask]

\* One pass of the blink-removal loop body, for one eye.
BlinkEye(lm, eye, blink_cfg) ==
    LET eo == calculate_eye_openness(lm, eye)
    IN  {IF b.error # "none" THEN [error |-> b.error]
         ELSE [error |-> "none", eo |-> eo,
               lm |-> ApplyBlinkMask(lm, eye, b.is_blink)] :
            b \in detect_blinks(eo.mean_eye_openness_nz, blink_cfg)}

\* The blink-removal try block: left, then right; the first exception ends it.
BlinkStageOutcomes(lm, blink_cfg) ==
    UNION {IF l.error # "none" THEN {[error |-> l.error]}
           ELSE {IF r.error # "none" THEN [error |-> r.error]
                 ELSE [error |-> "none", lm |-> r.lm,
                       eo |-> [left |-> l.eo, right |-> r.eo]] :
                    r \in BlinkEye(l.lm, Eyes[2], blink_cfg)} :
              l \in BlinkEye(lm, Eyes[1], blink_cfg)}

\* lm[col] = pupil_size[col] for one eye.
SetPupilSize(lm, eye, nominal_iris_size_mm) ==
    [lm EXCEPT !.pupil_size_mm[eye] =
                   calculate_pupil_size(lm, eye, nominal_iris_size_mm).pupil_size_mm]

\* The smoothing loop: both eyes' smooth_pupil_size_mm columns.
SmoothPupilSize(lm, nr_cfg) ==
    [lm EXCEPT !.smooth_pupil_size_mm =
                   [eye \in EyeSet |->
                       RollingMean(lm.pupil_size_mm[eye], nr_cfg.smoothing_window,
                                   nr_cfg.smoothing_window_type)]]

\* ps = lm.loc[0:flash_duration, <eye>_smooth_pupil_size_mm] and its index.
PostStimulus(lm, eye, flash_duration) ==
    [ps    |-> LocSlice(lm.index, lm.smooth_pupil_size_mm[eye], 0, flash_duration),
     index |-> LocSlice(lm.index, lm.index, 0, flash_duration)]

\* calculate_biomarkers on one eye's post-stimulus window.
EyeBiomarkers(lm, eye, flash_duration, ctn_cfg) ==
    LET w == PostStimulus(lm, eye, flash_duration)
    IN  calculate_biomarkers(w.ps, w.index, ctn_cfg.ctn_start_velocity_th_mms,
                             ctn_cfg.sg_window, ctn_cfg.sg_poly_order)

\* The outcomes of a plotting call (matplotlib, writing a figure file): it
\* returns or it raises.
PlotOutcomes == {"none", "PlotError"}

\* The biomarker loop body for one eye, from the dict bm: the entry is written
\* when calculate_biomarkers returns, and the plot that follows may still raise.
BiomarkerEye(bm, test_id, lm, eye, flash_duration, ctn_cfg) ==
    UNION {IF IsRaised(b) THEN {[error |-> b.error, biomarkers |-> bm]}
           ELSE {[error |-> plot, biomarkers |-> Put(bm, <<test_id, eye>>, b)] :
                    plot \in PlotOutcomes} :
              b \in EyeBiomarkers(lm, eye, flash_duration, ctn_cfg)}

\* The biomarker try block: left, then right; the first exception ends it.
BiomarkerStageOutcomes(bm, test_id, lm, flash_duration, ctn_cfg) ==
    UNION {IF l.error # "none" THEN {l}
           ELSE BiomarkerEye(l.biomarkers, test_id, lm, Eyes[2], flash_duration, ctn_cfg) :
              l \in BiomarkerEye(bm, test_id, lm, Eyes[1], flash_duration, ctn_cfg)}

(***************************************************************************)
(* State.                                                                  *)
(*   config, test_ids       the loaded config.json, os.listdir(data_dir)   *)
(*   pos, pc                the loop's position in test_ids, the next try  *)
(*                          block of the loop body                         *)
(*   lm, flash_duration     the current recording's frame and flash length *)
(*   eo, pupil_size         the frames calculate_eye_openness and          *)
(*                          calculate_pupil_size returned, per eye         *)
(*   summary, biomarkers    the two dicts of the batch                     *)
(*   log, stages_run        per recording: the messages logged, and the    *)
(*                          try blocks entered, in order                   *)
(*   read                   per recording: what the files read held (the   *)
(*                          flash events, the frames, the non-OK frames)   *)
(*   reports                the files written after the loop               *)
(*   bio_*                  one call of calculate_biomarkers: its          *)
(*                          arguments and its outcome                      *)
(*   blink_*                one call of detect_blinks: its arguments and   *)
(*                          its outcome                                    *)
(***************************************************************************)
VARIABLES config, test_ids, pos, pc, lm, flash_duration, eo, pupil_size,
          summary, biomarkers, log, stages_run, read, reports,
          bio_ps, bio_index, bio_cfg, bio_out, bio_pc,
          blink_openness, blink_conf, blink_out, blink_pc

pipe_vars == <<config, test_ids, pos, pc, lm, flash_duration, eo, pupil_size,
               summary, biomarkers, log, stages_run, read, reports>>
bio_vars == <<bio_ps, bio_index, bio_cfg, bio_out, bio_pc>>
blink_vars == <<blink_openness, blink_conf, blink_out, blink_pc>>
vars == <<pipe_vars, bio_vars, blink_vars>>

(***************************************************************************)
(* Inputs of the batch                                                     *)
(***************************************************************************)
\* The largest number of frames of a recording, in a batch of two recordings
\* and in a batch of one.
MaxBatchFrames == 3
MaxFrames == 4

\* The landmarks of one eye: a pupil of diameter 5u px (the second diagonal
\* estimate over a 3u-4u-5u triangle), an iris of the given diameter, and five
\* eyelid gaps of the given height.
EyeShape(u, iris, gap) ==
    [l \in Landmarks |->
        LET xy == CASE l = 10 -> <<5 * u, 0>>
                    [] l = 23 -> <<0, 5 * u>>
                    [] l = 24 -> <<3 * u, 4 * u>>
                    [] l = 25 -> <<5 * u, 5 * u>>
                    [] l = 11 -> <<iris, 0>>
                    [] l \in {19, 14, 15, 12, 21} -> <<0, gap>>
                    [] OTHER -> <<0, 0>>
        IN  <<Num(xy[1]), Num(xy[2])>>]

Dilated     == EyeShape(2, 20, 4)
Constricted == EyeShape(1, 20, 4)
Closed      == EyeShape(1, 20, 1)
FlatIris    == EyeShape(1, 0, 4)

\* The rows a landmarks CSV is made of: a frame the detector failed on (its
\* coordinates are whatever was written), and OK frames.
FailRow    == [retcode |-> "FAIL", left |-> Dilated,     right |-> Dilated]
OpenRow    == [retcode |-> "OK",   left |-> Dilated,     right |-> Dilated]
SmallRow   == [retcode |-> "OK",   left |-> Constricted, right |-> Constricted]
BlinkRow   == [retcode |-> "OK",   left |-> Closed,      right |-> Dilated]
NoIrisRow  == [retcode |-> "OK",   left |-> Dilated,     right |-> FlatIris]

FrameRows == {FailRow, OpenRow, SmallRow, BlinkRow, NoIrisRow}
BatchRows == {FailRow, OpenRow}

\* Landmarks CSVs of up to max frames, one every 10 ms, made of the given rows.
LandmarkFiles(rowset, max) ==
    UNION {{[k \in 1..n |-> [timestamp |-> 10 * (k - 1), retcode |-> rows[k].retcode,
                             left |-> rows[k].left, right |-> rows[k].right]] :
               rows \in [1..n -> rowset]} : n \in 0..max}

\* Protocol CSVs: with and without the two flash events.
ProtocolFiles ==
    {<<>>,
     <<[event |-> "FlashOn", time |-> 0]>>,
     <<[event |-> "FlashOff", time |-> 20]>>,
     <<[event |-> "FlashOn", time |-> 0], [event |-> "FlashOff", time |-> 20]>>,
     <<[event |-> "FlashOn", time |-> 10], [event |-> "FlashOff", time |-> 20]>>}

\* config.json: two settings of the data-loss error threshold.
Configs ==
    {[dataloss |-> [error |-> err, warning |-> Norm(1, 4)],
      nominal_iris_size_mm |-> Num(12),
      blink |-> [sg_window |-> 3, sg_poly_order |-> 1,
                 openness_th |-> Norm(1, 2), speed_th |-> Norm(1, 4),
                 blink_interval_window |-> 3],
      noise_reduction |-> [smoothing_window |-> 3, smoothing_window_type |-> "boxcar",
                           stable_interval_start |-> -10, stable_interval_end |-> 10],
      constriction |-> [ctn_start_velocity_th_mms |-> Num(-1),
                        sg_window |-> 3, sg_poly_order |-> 1]] :
        err \in {Norm(1, 2), Num(1)}}

(***************************************************************************)
(* The __main__ loop                                                       *)
(***************************************************************************)
\* No frame: lm before a recording is loaded.  lm is dead at the head of the
\* loop body (every read follows the assignment of the same iteration), so
\* the model clears it, and the other per-recording locals, there.
NoFrame ==
    [timestamp |-> <<>>, retcode |-> <<>>, lmk |-> [eye \in EyeSet |-> <<>>],
     is_flash_on |-> <<>>, index |-> <<>>, is_blink |-> [eye \in EyeSet |-> <<>>],
     pupil_size_mm |-> [eye \in EyeSet |-> <<>>],
     smooth_pupil_size_mm |-> [eye \in EyeSet |-> <<>>]]

NoLocals == [eye \in EyeSet |-> <<>>]

Stages == <<"load", "blink", "pupil_size", "noise_reduction", "biomarkers">>

\* The state before the first recording of the listing ids.
Start(ids) ==
    /\ config \in Configs
    /\ test_ids = ids
    /\ pos = 1
    /\ pc = "load"
    /\ lm = NoFrame
    /\ flash_duration = 0
    /\ eo = NoLocals
    /\ pupil_size = NoLocals
    /\ summary = <<>>
    /\ biomarkers = <<>>
    /\ log = [k \in DOMAIN ids |-> <<>>]
    /\ stages_run = [k \in DOMAIN ids |-> <<>>]
    /\ read = [k \in DOMAIN ids |-> <<>>]
    /\ reports = [written |-> {}]
    /\ bio_ps = <<>>
    /\ bio_index = <<>>
    /\ bio_cfg = [sg_window |-> 0]
    /\ bio_out = [error |-> "not called"]
    /\ bio_pc = "idle"
    /\ blink_openness = <<>>
    /\ blink_conf = [sg_window |-> 0]
    /\ blink_out = [error |-> "not called"]
    /\ blink_pc = "idle"

\* A batch of two recordings, and a batch of one.
Init == Start(<<"rec_a", "rec_b">>)
InitRec == Start(<<"rec_a">>)

\* logging.<level>(msg), for the recording at position pos.
Logged(level, msg, exc) ==
    [log EXCEPT ![pos] = Append(@, [level |-> level, msg |-> msg, exc |-> exc])]

\* A try block of the loop body is entered.
Enter(stage) ==
    /\ pos <= Len(test_ids)
    /\ pc = stage
    /\ stages_run' = [stages_run EXCEPT ![pos] = Append(@, stage)]

\* `continue`, and the end of the loop body: on to the next recording.
NextRecording ==
    /\ pos' = pos + 1
    /\ pc' = "load"
    /\ lm' = NoFrame
    /\ flash_duration' = 0
    /\ eo' = NoLocals
    /\ pupil_size' = NoLocals

\* The try block that follows the given one in the loop body.
StageAfter(stage) ==
    CHOOSE s \in Range(Stages) :
        \E j \in 1..(Len(Stages) - 1) : Stages[j] = stage /\ Stages[j + 1] = s

\* An except clause that logs the error and falls through to the next try
\* block instead of `continue`.
ExceptFallThrough(earlier, msg, exc) ==
    /\ log' = [log EXCEPT ![pos] = @ \o earlier \o
                  <<[level |-> "error", msg |-> msg, exc |-> exc]>>]
    /\ pc' = StageAfter(pc)
    /\ UNCHANGED <<pos, lm, flash_duration, eo, pupil_size>>

\* An exception in a try block after the block logged the earlier messages:
\* the except clause logs the error, then `continue`.
ExceptAfter(earlier, msg, exc) ==
    /\ log' = [log EXCEPT ![pos] = @ \o earlier \o
                  <<[level |-> "error", msg |-> msg, exc |-> exc]>>]
    /\ NextRecording

Except(msg, exc) == ExceptAfter(<<>>, msg, exc)

\* What the two files of a recording held.
FilesRead(landmarks, protocol) ==
    [flash_on  |-> \E k \in DOMAIN protocol : protocol[k].event = "FlashOn",
     flash_off |-> \E k \in DOMAIN protocol : protocol[k].event = "FlashOff",
     frames    |-> Len(landmarks),
     not_ok    |-> Cardinality({k \in DOMAIN landmarks : landmarks[k].retcode # "OK"})]

\* Lines 43-71: load the recording, compute the data loss, apply the gate.  The
\* recording's two files are drawn from the given landmarks files and from
\* ProtocolFiles.
Load(files) ==
    /\ Enter("load")
    /\ \E landmarks \in files, protocol \in ProtocolFiles :
          LET out == load_plr_data(landmarks, protocol)
          IN  /\ read' = [read EXCEPT ![pos] = FilesRead(landmarks, protocol)]
              /\ IF out.error # "none"
                 THEN \* load_plr_data logs the missing event, then raises
                      /\ ExceptAfter(<<[level |-> "error", msg |-> "Missing onset or offset",
                                        exc |-> "none"]>>,
                                     "failed loading recording", out.error)
                      /\ UNCHANGED summary
                 ELSE IF ok_count(out.lm) = 0
                 THEN /\ Except("failed loading recording", "KeyError")
                      /\ UNCHANGED summary
                 ELSE LET dataloss == dataloss_of(out.lm)
                      IN  /\ summary' = Put(summary, test_ids[pos], [dataloss |-> dataloss])
                          /\ IF Gt(dataloss, config.dataloss.error)
                             THEN /\ log' = Logged("error", "very high data loss; skipping", "none")
                                  /\ NextRecording
                             ELSE /\ log' = Logged(IF Gt(dataloss, config.dataloss.warning)
                                                   THEN "warning" ELSE "info",
                                                   "data loss", "none")
                                  /\ lm' = out.lm
                                  /\ flash_duration' = out.flash_duration
                                  /\ pc' = "blink"
                                  /\ UNCHANGED <<pos, eo, pupil_size>>
    /\ UNCHANGED <<config, test_ids, biomarkers, reports>>

LoadStage == Load(LandmarkFiles(BatchRows, MaxBatchFrames))
LoadRecording == Load(LandmarkFiles(FrameRows, MaxFrames))

\* Lines 73-87: blink removal for both eyes.
BlinkStage ==
    /\ Enter("blink")
    /\ \E out \in BlinkStageOutcomes(lm, config.blink) :
          IF out.error # "none"
          THEN Except("blink removal failed", out.error)
          ELSE /\ lm' = out.lm
               /\ eo' = out.eo
               /\ pc' = "pupil_size"
               /\ UNCHANGED <<pos, flash_duration, pupil_size, log>>
    /\ UNCHANGED <<config, test_ids, summary, biomarkers, read, reports>>

\* Lines 89-117: pupil size for both eyes, each followed by plotting calls.
PupilSizeStage ==
    /\ Enter("pupil_size")
    /\ \E plot \in PlotOutcomes :
          IF plot # "none"
          THEN Except("failed calculating pupil size", plot)
          ELSE /\ lm' = SetPupilSize(
                            SetPupilSize(lm, Eyes[1], config.nominal_iris_size_mm),
                            Eyes[2], config.nominal_iris_size_mm)
               /\ pupil_size' = [eye \in EyeSet |->
                                    calculate_pupil_size(lm, eye, config.nominal_iris_size_mm)]
               /\ pc' = "noise_reduction"
               /\ UNCHANGED <<pos, flash_duration, eo, log>>
    /\ UNCHANGED <<config, test_ids, summary, biomarkers, read, reports>>

\* Lines 119-156: smoothing, the signal quality into the summary, then the
\* noise-reduction plot, which may raise after the summary was updated.
NoiseReductionStage ==
    /\ Enter("noise_reduction")
    /\ LET smooth == SmoothPupilSize(lm, config.noise_reduction)
           sq == calculate_signal_quality(
                     smooth, <<config.noise_reduction.stable_interval_start,
                               config.noise_reduction.stable_interval_end>>)
       IN  /\ summary' = [summary EXCEPT ![test_ids[pos]] =
                             [dataloss |-> @.dataloss,
                              raw_signal_quality |-> sq.raw_signal_quality,
                              smooth_signal_quality |-> sq.smooth_signal_quality]]
           /\ \E plot \in PlotOutcomes :
                 IF plot # "none"
                 THEN ExceptAfter(<<[level |-> "info", msg |-> "signal quality",
                                     exc |-> "none"]>>,
                                  "noise reduction failed", plot)
                 ELSE /\ lm' = smooth
                      /\ log' = Logged("info", "signal quality", "none")
                      /\ pc' = "biomarkers"
                      /\ UNCHANGED <<pos, flash_duration, eo, pupil_size>>
    /\ UNCHANGED <<config, test_ids, biomarkers, read, reports>>

\* Lines 158-177: the biomarkers of both eyes, each followed by its plot; the
\* loop body ends here either way.
BiomarkerStage ==
    /\ Enter("biomarkers")
    /\ \E out \in BiomarkerStageOutcomes(biomarkers, test_ids[pos], lm, flash_duration,
                                         config.constriction) :
          /\ biomarkers' = out.biomarkers
          /\ log' = IF out.error # "none"
                    THEN Logged("error", "biomarker calculations failed", out.error)
                    ELSE log
    /\ NextRecording
    /\ UNCHANGED <<config, test_ids, summary, read, reports>>

\* pd.DataFrame.from_dict(d, orient="index"): one row per key, one column per
\* field of any row, missing where a row lacks the field.
FromDict(d) ==
    LET columns == UNION {DOMAIN d[k] : k \in DOMAIN d}
    IN  [k \in DOMAIN d |->
            [c \in columns |-> IF c \in DOMAIN d[k] THEN d[k][c] ELSE NaN]]

\* Lines 183-189: the two aggregates are written.  With no biomarkers entry the
\* frame has a plain index, set_names with two names raises, and
\* reports/biomarkers.csv is not written.
Finish ==
    /\ pc = "load"
    /\ pos > Len(test_ids)
    /\ pc' = "done"
    /\ reports' = IF biomarkers = <<>>
                  THEN [written |-> {"pipeline_summary"},
                        pipeline_summary |-> FromDict(summary)]
                  ELSE [written |-> {"pipeline_summary", "biomarkers"},
                        pipeline_summary |-> FromDict(summary),
                        biomarkers |-> FromDict(biomarkers)]
    /\ UNCHANGED <<config, test_ids, pos, lm, flash_duration, eo, pupil_size,
                   summary, biomarkers, log, stages_run, read>>

Next ==
    \/ LoadStage /\ UNCHANGED <<bio_vars, blink_vars>>
    \/ BlinkStage /\ UNCHANGED <<bio_vars, blink_vars>>
    \/ PupilSizeStage /\ UNCHANGED <<bio_vars, blink_vars>>
    \/ NoiseReductionStage /\ UNCHANGED <<bio_vars, blink_vars>>
    \/ BiomarkerStage /\ UNCHANGED <<bio_vars, blink_vars>>
    \/ Finish /\ UNCHANGED <<bio_vars, blink_vars>>

Spec == Init /\ [][Next]_vars

\* The same loop over a single recording with more frames and more kinds of
\* frame.
NextRec ==
    \/ LoadRecording /\ UNCHANGED <<bio_vars, blink_vars>>
    \/ BlinkStage /\ UNCHANGED <<bio_vars, blink_vars>>
    \/ PupilSizeStage /\ UNCHANGED <<bio_vars, blink_vars>>
    \/ NoiseReductionStage /\ UNCHANGED <<bio_vars, blink_vars>>
    \/ BiomarkerStage /\ UNCHANGED <<bio_vars, blink_vars>>
    \/ Finish /\ UNCHANGED <<bio_vars, blink_vars>>

SpecRec == InitRec /\ [][NextRec]_vars

(***************************************************************************)
(* Claims about the batch loop, checked under Spec.                        *)
(***************************************************************************)
Recordings == DOMAIN test_ids

\* The load try block of recording k was entered (its files were read).
Loaded(k) == stages_run[k] # <<>>

\* The messages logged at level error for recording k.
Errors(k) == SelectSeq(log[k], LAMBDA m : m.level = "error")

\* An error with the given message was logged for recording k.
ErrorLogged(k, msg) == \E j \in DOMAIN log[k] : log[k][j].level = "error" /\ log[k][j].msg = msg

\* The event log read for recording k lacks FlashOn or FlashOff.
MissingEvent(k) == Loaded(k) /\ ~(read[k].flash_on /\ read[k].flash_off)

\* Recording k has a signal-quality record, a biomarkers record.
HasSignalQuality(k) ==
    /\ test_ids[k] \in DOMAIN summary
    /\ "raw_signal_quality" \in DOMAIN summary[test_ids[k]]
HasBiomarkers(k) == \E eye \in EyeSet : <<test_ids[k], eye>> \in DOMAIN biomarkers

\* Loading recording k failed with the exception exc, no later stage ran for
\* it, and the loop went on to the next recording.
LoadAborted(k, exc) ==
    /\ log[k] = <<[level |-> "error", msg |-> "Missing onset or offset", exc |-> "none"],
                  [level |-> "error", msg |-> "failed loading recording", exc |-> exc]>>
    /\ stages_run[k] = <<"load">>
    /\ pos > k
    /\ ~HasSignalQuality(k) /\ ~HasBiomarkers(k)

\* C1 as stated: a recording whose event log lacks FlashOn or FlashOff fails in
\* load_plr_data with a MissingStimulusEventError, no later stage runs for it,
\* and the loop goes on to the next recording.
C1_MissingStimulusEventError ==
    \A k \in Recordings : MissingEvent(k) => LoadAborted(k, "MissingStimulusEventError")

\* C1 amended: the same, the exception being the built-in IndexError.
C1_MissingEventAbortsRecording ==
    \A k \in Recordings : MissingEvent(k) => LoadAborted(k, "IndexError")

\* C1's case: a recording without a flash event was abandoned, and the next
\* recording of the batch went through its load stage into blink removal.
C1_Witness ==
    \E k \in Recordings :
        /\ MissingEvent(k)
        /\ k + 1 \in Recordings
        /\ Len(stages_run[k + 1]) >= 2

\* The data-loss ratio recorded for recording k is (non-OK frames) / (frames);
\* above the error threshold the recording was skipped with no signal-quality
\* and no biomarkers record, otherwise it proceeded to blink detection.
DataLossGated(k) ==
    LET ratio == Norm(read[k].not_ok, read[k].frames)
    IN  /\ test_ids[k] \in DOMAIN summary
        /\ summary[test_ids[k]].dataloss = ratio
        /\ IF Gt(ratio, config.dataloss.error)
           THEN /\ stages_run[k] = <<"load">>
                /\ pos > k
                /\ ~HasSignalQuality(k) /\ ~HasBiomarkers(k)
           ELSE (pos = k /\ pc = "blink") \/ Len(stages_run[k]) >= 2

\* C2: for every loaded recording, whatever its mix of OK and non-OK frames
\* (no OK frame included), the data-loss ratio is (non-OK frames) / (frames);
\* the recording is skipped, with no SignalQuality and no Biomarkers record,
\* exactly when the ratio is above the error threshold, and otherwise it
\* proceeds to blink detection.
C2_DataLossGate ==
    \A k \in Recordings :
        Loaded(k) /\ ~MissingEvent(k) /\ read[k].frames > 0 => DataLossGated(k)

\* C2 holds of the recordings that have an OK frame.
C2_DataLossGateSomeOK ==
    \A k \in Recordings :
        Loaded(k) /\ ~MissingEvent(k) /\ read[k].not_ok < read[k].frames => DataLossGated(k)

\* Recording k was skipped by the data-loss gate; it failed in the
\* blink-removal, pupil-size or noise-reduction try block.
Skipped(k) == ErrorLogged(k, "very high data loss; skipping")
FailedMidway(k) ==
    \/ ErrorLogged(k, "blink removal failed")
    \/ ErrorLogged(k, "failed calculating pupil size")
    \/ ErrorLogged(k, "noise reduction failed")

\* C3: at the end of the batch, reports/pipeline_summary.csv has no row for a
\* recording that was skipped for data loss or that failed in the blink-removal,
\* pupil-size or noise-reduction stage, and reports/biomarkers.csv has no row for
\* an eye whose extraction did not complete.
C3_FailedRecordingsOmitted ==
    pc = "done" =>
        /\ \A k \in Recordings :
              Skipped(k) \/ FailedMidway(k) =>
                  test_ids[k] \notin DOMAIN reports.pipeline_summary
        /\ "biomarkers" \in reports.written =>
              \A k \in Recordings, eye \in EyeSet :
                  <<test_ids[k], eye>> \in DOMAIN reports.biomarkers =>
                      /\ stages_run[k] = Stages
                      /\ <<test_ids[k], Eyes[1]>> \in DOMAIN reports.biomarkers

\* The try block an error message belongs to.
StageOfError(msg) ==
    CASE msg = "Missing onset or offset"        -> "load"
      [] msg = "failed loading recording"       -> "load"
      [] msg = "very high data loss; skipping"  -> "load"
      [] msg = "blink removal failed"           -> "blink"
      [] msg = "failed calculating pupil size"  -> "pupil_size"
      [] msg = "noise reduction failed"         -> "noise_reduction"
      [] msg = "biomarker calculations failed"  -> "biomarkers"

\* The stages of every recording ran in the fixed order, each at most once; a
\* stage that failed is the last one that ran for its recording, and the loop
\* has moved past that recording.
StagesInOrder ==
    \A k \in Recordings :
        /\ stages_run[k] = SubSeq(Stages, 1, Len(stages_run[k]))
        /\ k > pos => stages_run[k] = <<>>
        /\ \A j \in DOMAIN Errors(k) :
              /\ stages_run[k][Len(stages_run[k])] = StageOfError(Errors(k)[j].msg)
              /\ pos > k

\* The try block about to run finds the columns of every earlier stage, for
\* both eyes.
EarlierStagesComplete ==
    pos \in Recordings =>
        \A eye \in EyeSet :
            /\ pc \in {"pupil_size", "noise_reduction", "biomarkers"} =>
                  DOMAIN lm.is_blink[eye] = DOMAIN lm.index
            /\ pc \in {"noise_reduction", "biomarkers"} =>
                  DOMAIN lm.pupil_size_mm[eye] = DOMAIN lm.index
            /\ pc = "biomarkers" =>
                  DOMAIN lm.smooth_pupil_size_mm[eye] = DOMAIN lm.index

\* A step leaves the summary and biomarkers entries of every recording other
\* than the current one as they are.
OtherEntriesKept ==
    \A k \in Recordings :
        k # pos =>
            /\ test_ids[k] \in DOMAIN summary =>
                  /\ test_ids[k] \in DOMAIN summary'
                  /\ summary'[test_ids[k]] = summary[test_ids[k]]
            /\ \A eye \in EyeSet :
                  <<test_ids[k], eye>> \in DOMAIN biomarkers =>
                      /\ <<test_ids[k], eye>> \in DOMAIN biomarkers'
                      /\ biomarkers'[<<test_ids[k], eye>>] = biomarkers[<<test_ids[k], eye>>]

\* C4: for every recording the stages run in the order load, blink removal,
\* pupil size, noise reduction, biomarkers, a stage running only after every
\* earlier stage completed for both eyes; after a failed stage no later stage
\* runs for the recording and the loop goes on, and no step changes the summary
\* or biomarkers entries of another recording.
C4_StageOrderAndIsolation ==
    /\ [](StagesInOrder /\ EarlierStagesComplete)
    /\ [][OtherEntriesKept]_vars

\* C4's case: a recording has its biomarkers entry, and the next recording
\* failed in blink removal.
C4_Witness ==
    \E k \in Recordings :
        /\ HasBiomarkers(k)
        /\ HasSignalQuality(k)
        /\ k + 1 \in Recordings
        /\ ErrorLogged(k + 1, "blink removal failed")
        /\ stages_run[k + 1] = <<"load", "blink">>

(***************************************************************************)
(* Claims about the series of one recording, checked under SpecRec.        *)
(***************************************************************************)
\* The frames of the recording in hand, and the try blocks that find the
\* output of blink removal, of the pupil-size stage, of the smoothing.
Frames == DOMAIN lm.index
AfterBlink == pc \in {"pupil_size", "noise_reduction", "biomarkers"}
AfterPupilSize == pc \in {"noise_reduction", "biomarkers"}
AfterSmoothing == pc = "biomarkers"

\* Every value calculate_pupil_size derived for the eye at frame i is missing.
PupilSizeMissing(eye, i) ==
    /\ \A k \in DOMAIN PupilPairs : IsNaN(pupil_size[eye].pupil_px[k][i])
    /\ IsNaN(pupil_size[eye].iris_size_px[i])
    /\ IsNaN(pupil_size[eye].pupil_size_px[i])
    /\ IsNaN(pupil_size[eye].pupil_size_mm[i])
    /\ IsNaN(lm.pupil_size_mm[eye][i])

\* Every value calculate_eye_openness derived for the eye at frame i is missing.
OpennessMissing(eye, i) ==
    /\ \A k \in DOMAIN OpennessPairs : IsNaN(eo[eye].openness_px[k][i])
    /\ IsNaN(eo[eye].mean_eye_openness_nz[i])

\* C5: at every frame whose retcode is not OK, for both eyes, the four pupil
\* diameters, the iris size, the five eyelid gaps, the openness index,
\* pupil_size_px, pupil_size_mm and the smoothed pupil_size_mm are missing.
C5_NotOKFramesMissing ==
    \A eye \in EyeSet, i \in Frames :
        lm.retcode[i] # "OK" =>
            /\ lm.lmk[eye][i] = MissingEye
            /\ AfterBlink => OpennessMissing(eye, i)
            /\ AfterPupilSize => PupilSizeMissing(eye, i)
            /\ AfterSmoothing => IsNaN(lm.smooth_pupil_size_mm[eye][i])

\* C5's case: the smoothing has run on a recording with a frame that is not OK
\* and a frame whose pupil size is present.
C5_Witness ==
    /\ AfterSmoothing
    /\ \E i \in Frames : lm.retcode[i] # "OK"
    /\ \E i \in Frames : IsFinite(lm.pupil_size_mm["left"][i])

\* At every frame an eye's blink mask is true, the eye's landmarks and all
\* values derived from them are missing; every column has one value per frame.
MaskedFramesMissing ==
    AfterBlink =>
        \A eye \in EyeSet :
            /\ DOMAIN lm.is_blink[eye] = Frames
            /\ DOMAIN lm.lmk[eye] = Frames
            /\ Len(lm.index) = read[pos].frames
            /\ AfterPupilSize => DOMAIN lm.pupil_size_mm[eye] = Frames
            /\ AfterSmoothing => DOMAIN lm.smooth_pupil_size_mm[eye] = Frames
            /\ \A i \in Frames :
                  lm.is_blink[eye][i] =>
                      /\ lm.lmk[eye][i] = MissingEye
                      /\ AfterPupilSize => PupilSizeMissing(eye, i)
                      /\ AfterSmoothing => IsNaN(lm.smooth_pupil_size_mm[eye][i])

\* A step within a recording keeps the index, and keeps the mask once set;
\* blink removal leaves an eye's landmarks as they were at every frame the
\* eye's own mask is false.
MaskKeptOthersUntouched ==
    pc # "load" /\ pc' # "load" =>
        /\ lm'.index = lm.index
        /\ lm'.timestamp = lm.timestamp
        /\ AfterBlink => lm'.is_blink = lm.is_blink
        /\ \A eye \in EyeSet, i \in Frames :
              ~lm'.is_blink[eye][i] => lm'.lmk[eye][i] = lm.lmk[eye][i]

\* C6: at every frame an eye's blink mask is true, the eye's landmark
\* distances, pupil_size_mm and smoothed pupil_size_mm are missing after the
\* stages have run; the frame stays in the series, the index is unchanged, the
\* mask column keeps its value, and the other eye's values at the frame are not
\* changed by the mask.
C6_BlinkMaskInvalidates ==
    /\ []MaskedFramesMissing
    /\ [][MaskKeptOthersUntouched]_vars

\* C6's case: after smoothing, a frame masked for the left eye only, where the
\* right eye's pupil size is present.
C6_Witness ==
    /\ AfterSmoothing
    /\ \E i \in Frames :
          /\ lm.is_blink["left"][i]
          /\ ~lm.is_blink["right"][i]
          /\ IsFinite(lm.pupil_size_mm["right"][i])

\* C7: calculate_pupil_size yields pupil_size_px / iris_size_px * nominal
\* where both are present and the iris size is not zero, and a missing value,
\* never an infinite one, where either is missing or the iris size is zero.
C7_PupilSizeMmGuarded ==
    AfterPupilSize =>
        \A eye \in EyeSet, i \in Frames :
            LET px   == pupil_size[eye].pupil_size_px[i]
                iris == pupil_size[eye].iris_size_px[i]
                mm   == pupil_size[eye].pupil_size_mm[i]
            IN  IF IsNaN(px) \/ IsNaN(iris) \/ Eq(iris, Zero)
                THEN IsNaN(mm)
                ELSE mm = Div(Mul(px, config.nominal_iris_size_mm), iris)

(***************************************************************************)
(* One call of calculate_biomarkers on a window given directly             *)
(***************************************************************************)
\* The largest number of samples of a post-stimulus window.
MaxSamples == 4

\* Smoothed pupil sizes (mm) of the samples, a missing value among them.
PupilSizes == {NaN, Num(2), Num(3), Num(4)}

\* Sample intervals (ms): the sampling need not be uniform.
SampleSteps == {10, 20}

\* config["constriction"]: the threshold (mm/s) and the filter's parameters.
ConstrictionConfigs ==
    [ctn_start_velocity_th_mms : {Num(-60), Num(-1)},
     sg_window : {3}, sg_poly_order : {1, 2}]

\* The strictly increasing indices 0, 0 + step, ... of n samples.
RECURSIVE Indices(_)
Indices(n) ==
    IF n = 1 THEN {<<0>>}
    ELSE {Append(t, t[n - 1] + d) : t \in Indices(n - 1), d \in SampleSteps}

BioInit ==
    /\ \E n \in 2..MaxSamples :
          /\ bio_ps \in [1..n -> PupilSizes]
          /\ bio_index \in Indices(n)
    /\ bio_cfg \in ConstrictionConfigs
    /\ bio_out = [error |-> "not called"]
    /\ bio_pc = "call"
    /\ config = [dataloss |-> <<>>]
    /\ test_ids = <<>>
    /\ pos = 1
    /\ pc = "idle"
    /\ lm = NoFrame
    /\ flash_duration = 0
    /\ eo = NoLocals
    /\ pupil_size = NoLocals
    /\ summary = <<>>
    /\ biomarkers = <<>>
    /\ log = <<>>
    /\ stages_run = <<>>
    /\ read = <<>>
    /\ reports = [written |-> {}]
    /\ blink_openness = <<>>
    /\ blink_conf = [sg_window |-> 0]
    /\ blink_out = [error |-> "not called"]
    /\ blink_pc = "idle"

\* One call calculate_biomarkers(ps, **config["constriction"]).
CalcBiomarkers ==
    /\ bio_pc = "call"
    /\ bio_out' \in calculate_biomarkers(bio_ps, bio_index,
                        bio_cfg.ctn_start_velocity_th_mms,
                        bio_cfg.sg_window, bio_cfg.sg_poly_order)
    /\ bio_pc' = "done"
    /\ UNCHANGED <<bio_ps, bio_index, bio_cfg>>
    /\ UNCHANGED <<pipe_vars, blink_vars>>

BioNext == CalcBiomarkers

SpecBio == BioInit /\ [][BioNext]_vars

(***************************************************************************)
(* Claims about calculate_biomarkers, checked under SpecBio.               *)
(***************************************************************************)
\* The call returned a record (it did not raise).
BioReturned == bio_pc = "done" /\ ~IsRaised(bio_out)

\* The velocity series of the window (mm/s), defined when the filter returns.
BioVelocity ==
    ctn_speed_mms(savgol_values(bio_ps, bio_cfg.sg_window, bio_cfg.sg_poly_order),
                  bio_index)

BioBelow(i) == Lt(BioVelocity[i], bio_cfg.ctn_start_velocity_th_mms)

BioSamples == 1..Len(bio_ps)

\* The sample whose time index is the reported latency.
BioLatencySample == CHOOSE i \in BioSamples : bio_index[i] = bio_out.ctn_latency_ms

\* The largest (smallest) of a set of numbers without missing values.
SetMax(S) == CHOOSE m \in S : \A o \in S : ~Lt(m, o)
SetMin(S) == CHOOSE m \in S : \A o \in S : ~Lt(o, m)

\* The present pupil sizes of the samples in I.
BioSizes(I) == {bio_ps[i] : i \in {j \in I : ~IsNaN(bio_ps[j])}}

\* (maximum pupil size over the samples I) - (minimum pupil size of the window),
\* missing when either does not exist.
BioAmplitudeOver(I) ==
    IF BioSizes(I) = {} THEN NaN
    ELSE Sub(SetMax(BioSizes(I)), SetMin(BioSizes(BioSamples)))

\* C8: whenever a record is returned, the reported latency is the time index of
\* the first sample of the window whose velocity is below the threshold; a
\* window without such a sample does not get a time index as its latency.
C8_LatencyIsFirstCrossing ==
    BioReturned =>
        \E i \in BioSamples :
            /\ bio_out.ctn_latency_ms = bio_index[i]
            /\ BioBelow(i)
            /\ \A j \in 1..(i - 1) : ~BioBelow(j)

\* C9: the returned peak velocity is the magnitude of the most negative velocity
\* over all samples of the window.
C9_PeakVelocityIsWindowMinimum ==
    BioReturned =>
        bio_out.ctn_max_velocity_mms = Neg(MinOf(BioVelocity))

\* C10 as stated: the amplitude is (the maximum pupil size over the samples
\* before the latency sample) - (the minimum pupil size of the window).  It is
\* stated here for the windows whose latency is a true threshold crossing, so
\* that the default latency of a window without a crossing plays no part.
C10_AmplitudeBeforeLatency ==
    BioReturned /\ BioBelow(BioLatencySample) =>
        bio_out.total_ctn_mm = BioAmplitudeOver(1..(BioLatencySample - 1))

\* C10 amended: the amplitude is (the maximum pupil size over the samples up to
\* and including the latency sample) - (the minimum pupil size of the window).
C10_AmplitudeUpToLatency ==
    BioReturned =>
        bio_out.total_ctn_mm = BioAmplitudeOver(1..BioLatencySample)

\* C10's case: a record whose latency sample is a true crossing after the first
\* sample and holds a pupil size above every earlier one.
C10_Witness ==
    /\ BioReturned
    /\ BioLatencySample > 1
    /\ BioBelow(BioLatencySample)
    /\ \A j \in 1..(BioLatencySample - 1) : Lt(bio_ps[j], bio_ps[BioLatencySample])
    /\ IsFinite(bio_out.total_ctn_mm)

\* C11: the returned average velocity is amplitude / (time of the minimum -
\* latency) when the two times differ; when they are equal the call falls back
\* to an error or a sentinel, never to the outcome of a division by zero (an
\* infinite velocity).
C11_AverageVelocityGuarded ==
    BioReturned =>
        IF bio_out.ctn_max_time_ms # bio_out.ctn_latency_ms
        THEN bio_out.ctn_velocity_mms =
                 Div(bio_out.total_ctn_mm,
                     Num(bio_out.ctn_max_time_ms - bio_out.ctn_latency_ms))
        ELSE ~IsInf(bio_out.ctn_velocity_mms)

\* C11 for the windows whose time of the minimum differs from the latency.
C11_AverageVelocityWhenDistinct ==
    BioReturned /\ bio_out.ctn_max_time_ms # bio_out.ctn_latency_ms =>
        bio_out.ctn_velocity_mms =
            Div(BioAmplitudeOver(1..BioLatencySample),
                Num(bio_out.ctn_max_time_ms - bio_out.ctn_latency_ms))

(***************************************************************************)
(* One call of detect_blinks on an openness series given directly.         *)
(***************************************************************************)
MaxBlinkFrames == 5

\* Values of an eye's mean_eye_openness_nz: open, nearly closed, missing.
OpennessValues == {Num(1), Norm(1, 4), NaN}

\* config["blink"]: a speed threshold the openness series can and cannot
\* exceed, and mask-smoothing windows of 3, 4 and 5 frames.
BlinkConfigs ==
    [sg_window : {3}, sg_poly_order : {1},
     openness_th : {Norm(1, 2)}, speed_th : {Norm(1, 4), Num(2)},
     blink_interval_window : {3, 4, 5}]

BlinkInit ==
    /\ \E n \in 3..MaxBlinkFrames : blink_openness \in [1..n -> OpennessValues]
    /\ blink_conf \in BlinkConfigs
    /\ blink_out = [error |-> "not called"]
    /\ blink_pc = "call"
    /\ bio_ps = <<>>
    /\ bio_index = <<>>
    /\ bio_cfg = [sg_window |-> 0]
    /\ bio_out = [error |-> "not called"]
    /\ bio_pc = "idle"
    /\ config = [dataloss |-> <<>>]
    /\ test_ids = <<>>
    /\ pos = 1
    /\ pc = "idle"
    /\ lm = NoFrame
    /\ flash_duration = 0
    /\ eo = NoLocals
    /\ pupil_size = NoLocals
    /\ summary = <<>>
    /\ biomarkers = <<>>
    /\ log = <<>>
    /\ stages_run = <<>>
    /\ read = <<>>
    /\ reports = [written |-> {}]

\* One call detect_blinks(lm, eye, eo, **config["blink"]).
DetectBlinks ==
    /\ blink_pc = "call"
    /\ blink_out' \in detect_blinks(blink_openness, blink_conf)
    /\ blink_pc' = "done"
    /\ UNCHANGED <<blink_openness, blink_conf>>
    /\ UNCHANGED <<pipe_vars, bio_vars>>

BlinkNext == DetectBlinks

SpecBlink == BlinkInit /\ [][BlinkNext]_vars

(***************************************************************************)
(* Claims about detect_blinks, checked under SpecBlink.                    *)
(***************************************************************************)
\* The call returned its frame (the filter did not raise).
BlinkReturned == blink_pc = "done" /\ blink_out.error = "none"

BlinkFrames == DOMAIN blink_openness

\* The raw candidate: speed above its threshold or openness below its own.
BlinkCandidate(i) ==
    \/ Gt(blink_out.speed[i], blink_conf.speed_th)
    \/ Lt(blink_openness[i], blink_conf.openness_th)

\* The frames a window of the configured length centred on frame i covers,
\* inside the series.
BlinkWindow(i) ==
    LET w == blink_conf.blink_interval_window
    IN  {j \in BlinkFrames : j >= i - (w \div 2) /\ j <= i + ((w - 1) \div 2)}

\* Twice the median of the candidate (as 0 and 1) over the window of frame i.
TwiceMedian(i) ==
    LET k == Cardinality(BlinkWindow(i))
        t == Cardinality({j \in BlinkWindow(i) : BlinkCandidate(j)})
        \* the m-th smallest of k values of which t are 1
        nth(m) == IF m > k - t THEN 1 ELSE 0
    IN  IF k % 2 = 1 THEN 2 * nth((k + 1) \div 2)
        ELSE nth(k \div 2) + nth((k \div 2) + 1)

\* The final mask is the centred rolling median of the candidate, as a boolean.
MaskIsRollingMedian ==
    \A i \in BlinkFrames : blink_out.is_blink[i] = (TwiceMedian(i) # 0)

\* C12: with a mask-smoothing window of at least 3 frames, the final mask is
\* the centred rolling median of the raw candidate cast to boolean, and a
\* candidate that is true at exactly one frame of the series, wherever that
\* frame is, leaves the final mask false at every frame.
C12_SingleFrameRemoved ==
    BlinkReturned /\ blink_conf.blink_interval_window >= 3 =>
        /\ MaskIsRollingMedian
        /\ Cardinality({i \in BlinkFrames : BlinkCandidate(i)}) = 1 =>
              \A i \in BlinkFrames : ~blink_out.is_blink[i]

\* C12 for a single candidate frame every window around which lies inside the
\* series: the mask is the rolling median, and it is false at every frame.
C12_InteriorSingleFrameRemoved ==
    BlinkReturned /\ blink_conf.blink_interval_window >= 3 =>
        /\ MaskIsRollingMedian
        /\ \A c \in BlinkFrames :
              /\ {i \in BlinkFrames : BlinkCandidate(i)} = {c}
              /\ \A i \in BlinkFrames :
                    c \in BlinkWindow(i) =>
                        Cardinality(BlinkWindow(i)) = blink_conf.blink_interval_window
              => \A i \in BlinkFrames : ~blink_out.is_blink[i]

\* A single candidate frame inside the series was smoothed away.
C12_InteriorCase ==
    /\ BlinkReturned
    /\ \E c \in BlinkFrames :
          /\ {i \in BlinkFrames : BlinkCandidate(i)} = {c}
          /\ \A i \in BlinkFrames :
                c \in BlinkWindow(i) =>
                    Cardinality(BlinkWindow(i)) = blink_conf.blink_interval_window

====
